---- MODULE Spec2Model ----
(***************************************************************************)
(* Model of ai_model_generator.py: the generate operator                   *)
(* (AIGEN_OT_generate), its five provider adapters, the script executor    *)
(* and the test-connection operator (AIGEN_OT_test_connection).            *)
(*                                                                         *)
(* Python strings are sequences of one-character strings.  JSON values are *)
(* tagged records (null, str, list, dict).  The host (bpy) scene is the    *)
(* number of objects linked to it and the sequence of collection names.    *)
(***************************************************************************)
EXTENDS Integers, Sequences, FiniteSets, TLC

\* ------------------------------------------------------------------------
\* Bounds
\* ------------------------------------------------------------------------
MaxSegs == 5
MaxObjects == 2
MaxCollections == 2
MaxScriptObjects == 1

\* ------------------------------------------------------------------------
\* Python str operations
\* ------------------------------------------------------------------------
Whitespace == {" ", "\n"}

RECURSIVE lstrip(_)
lstrip(s) ==
  IF s # <<>> /\ Head(s) \in Whitespace THEN lstrip(Tail(s)) ELSE s

RECURSIVE rstrip(_)
rstrip(s) ==
  IF s # <<>> /\ s[Len(s)] \in Whitespace
    THEN rstrip(SubSeq(s, 1, Len(s) - 1))
    ELSE s

strip(s) == rstrip(lstrip(s))

startswith(s, p) == Len(s) >= Len(p) /\ SubSeq(s, 1, Len(p)) = p

\* str.find, 1-based; 0 when sep does not occur in s
find(s, sep) ==
  LET hits == {i \in 1..(Len(s) - Len(sep) + 1) :
                 SubSeq(s, i, i + Len(sep) - 1) = sep}
  IN IF hits = {} THEN 0 ELSE CHOOSE i \in hits : \A j \in hits : i <= j

\* str.split(sep): left-to-right, non-overlapping occurrences of sep
RECURSIVE split(_, _)
split(s, sep) ==
  LET i == find(s, sep)
  IN IF i = 0
       THEN <<s>>
       ELSE <<SubSeq(s, 1, i - 1)>> \o split(SubSeq(s, i + Len(sep), Len(s)), sep)

\* The backquote character cannot be written in a TLA+ string; it is named
Backquote == "backquote"
Fence == <<Backquote, Backquote, Backquote>>
PythonTag == <<"p", "y", "t", "h", "o", "n">>
FencePython == Fence \o PythonTag

\* The markdown clean-up every keyed adapter applies to the response text
cleaned_content(content) ==
  strip(IF startswith(content, FencePython)
          THEN split(split(content, FencePython)[2], Fence)[1]
          ELSE IF startswith(content, Fence)
                 THEN split(split(content, Fence)[2], Fence)[1]
                 ELSE content)

\* ------------------------------------------------------------------------
\* JSON values (the result of response.json()) and Python's None
\* ------------------------------------------------------------------------
None == [t |-> "null"]
Str(s) == [t |-> "str", s |-> s]
List(l) == [t |-> "list", l |-> l]
Dict(d) == [t |-> "dict", d |-> d]
NotJson == [t |-> "notjson"]
EmptyDict == Dict([k \in {} |-> None])

IsDict(v) == v.t = "dict"
IsList(v) == v.t = "list"
IsStr(v) == v.t = "str"

\* key in v, for a dict v
HasKey(v, k) == IsDict(v) /\ k \in DOMAIN v.d

\* len(v) > 0 for the values len() accepts
NonEmpty(v) ==
  \/ IsList(v) /\ v.l # <<>>
  \/ IsStr(v) /\ v.s # <<>>
  \/ IsDict(v) /\ DOMAIN v.d # {}

\* len(v) raises TypeError
LenRaises(v) == v.t \notin {"list", "str", "dict"}

\* The characters of the keys looked up with Python's "in" operator
KeyChars ==
  [content |-> <<"c", "o", "n", "t", "e", "n", "t">>,
   parts |-> <<"p", "a", "r", "t", "s">>,
   text |-> <<"t", "e", "x", "t">>]

\* k in v raises TypeError
InRaises(v) == v.t \notin {"dict", "list", "str"}

\* k in v: key of a dict, element of a list, substring of a str
In(k, v) ==
  \/ HasKey(v, k)
  \/ IsList(v) /\ \E i \in 1..Len(v.l) : v.l[i] = Str(KeyChars[k])
  \/ IsStr(v) /\ find(v.s, KeyChars[k]) # 0

\* v[0] raises (IndexError, KeyError or TypeError)
FirstRaises(v) == ~((IsList(v) \/ IsStr(v)) /\ NonEmpty(v))

\* v[0]
First(v) == IF IsList(v) THEN v.l[1] ELSE Str(<<v.s[1]>>)

\* ------------------------------------------------------------------------
\* self.report and the outcome of a call
\* ------------------------------------------------------------------------
Error(m) == [level |-> "ERROR", msg |-> m]
Warning(m) == [level |-> "WARNING", msg |-> m]
Info(m) == [level |-> "INFO", msg |-> m]

\* a call returned v after reporting reps
Return(reps, v) == [reports |-> reps, ret |-> v, exc |-> FALSE]
\* a call raised an Exception after reporting reps
Raise(reps) == [reports |-> reps, ret |-> None, exc |-> TRUE]

\* ------------------------------------------------------------------------
\* HTTP responses: requests.post either raises or returns a response
\* ------------------------------------------------------------------------
NoResponse == [kind |-> "none", status |-> 0, body |-> NotJson]
RequestException == [kind |-> "exception", status |-> 0, body |-> NotJson]
HttpResponse(status, body) == [kind |-> "http", status |-> status, body |-> body]

\* Variant: any 2xx status is taken as success
StatusOk2xx(status) == status \in 200..299

StatusOk(status) == status = 200

\* The text field of a response ends up in the payload: non-strings raise in
\* len(content), content[:200] or content.startswith
CleanText(content) ==
  IF IsStr(content) THEN Return(<<>>, Str(cleaned_content(content.s))) ELSE Raise(<<>>)

\* Non-200 branch of the keyed adapters: the error body is parsed inside
\* try/except and only changes the wording of the one report
ApiError(name) == Return(<<Error(name \o " API Error")>>, None)

call_gemini_api(response) ==
  IF response.kind = "exception" THEN Raise(<<>>)
  ELSE IF ~StatusOk(response.status) THEN ApiError("Gemini")
  ELSE LET result == response.body IN
    IF ~IsDict(result) THEN Raise(<<>>)
    ELSE IF ~HasKey(result, "candidates")
      THEN Return(<<Error("No content generated by Gemini")>>, None)
    ELSE IF LenRaises(result.d["candidates"]) THEN Raise(<<>>)
    ELSE IF ~NonEmpty(result.d["candidates"])
      THEN Return(<<Error("No content generated by Gemini")>>, None)
    ELSE IF FirstRaises(result.d["candidates"]) THEN Raise(<<>>)
    ELSE LET candidate == First(result.d["candidates"]) IN
      IF ~IsDict(candidate) THEN Raise(<<>>)
      ELSE IF ~HasKey(candidate, "content")
        THEN Return(<<Error("Invalid response structure from Gemini")>>, None)
      ELSE IF InRaises(candidate.d["content"]) THEN Raise(<<>>)
      ELSE IF ~In("parts", candidate.d["content"])
        THEN Return(<<Error("Invalid response structure from Gemini")>>, None)
      ELSE IF ~IsDict(candidate.d["content"]) THEN Raise(<<>>)
      ELSE LET parts == candidate.d["content"].d["parts"] IN
        IF FirstRaises(parts) THEN Raise(<<>>)
        ELSE IF ~HasKey(First(parts), "text") THEN Raise(<<>>)
        ELSE CleanText(First(parts).d["text"])

call_anthropic_api(response) ==
  IF response.kind = "exception" THEN Raise(<<>>)
  ELSE IF ~StatusOk(response.status) THEN ApiError("Anthropic")
  ELSE LET result == response.body IN
    IF ~IsDict(result) THEN Raise(<<>>)
    ELSE IF ~HasKey(result, "content")
      THEN Return(<<Error("No content generated by Anthropic")>>, None)
    ELSE IF LenRaises(result.d["content"]) THEN Raise(<<>>)
    ELSE IF ~NonEmpty(result.d["content"])
      THEN Return(<<Error("No content generated by Anthropic")>>, None)
    ELSE IF FirstRaises(result.d["content"]) THEN Raise(<<>>)
    ELSE LET content_block == First(result.d["content"]) IN
      IF ~IsDict(content_block) THEN Raise(<<>>)
      ELSE IF ~HasKey(content_block, "text")
        THEN Return(<<Error("Invalid response structure from Anthropic")>>, None)
      ELSE CleanText(content_block.d["text"])

\* call_openai_api and call_groq_api read the same chat-completion shape
chat_completion(name, response) ==
  IF response.kind = "exception" THEN Raise(<<>>)
  ELSE IF ~StatusOk(response.status) THEN ApiError(name)
  ELSE LET result == response.body IN
    IF ~IsDict(result) THEN Raise(<<>>)
    ELSE IF ~HasKey(result, "choices")
      THEN Return(<<Error("No content generated by " \o name)>>, None)
    ELSE IF LenRaises(result.d["choices"]) THEN Raise(<<>>)
    ELSE IF ~NonEmpty(result.d["choices"])
      THEN Return(<<Error("No content generated by " \o name)>>, None)
    ELSE IF FirstRaises(result.d["choices"]) THEN Raise(<<>>)
    ELSE LET choice == First(result.d["choices"]) IN
      IF ~IsDict(choice) THEN Raise(<<>>)
      ELSE IF ~HasKey(choice, "message")
        THEN Return(<<Error("Invalid response structure from " \o name)>>, None)
      ELSE IF InRaises(choice.d["message"]) THEN Raise(<<>>)
      ELSE IF ~In("content", choice.d["message"])
        THEN Return(<<Error("Invalid response structure from " \o name)>>, None)
      ELSE IF ~IsDict(choice.d["message"]) THEN Raise(<<>>)
      ELSE CleanText(choice.d["message"].d["content"])

call_openai_api(response) == chat_completion("OpenAI", response)

call_groq_api(response) == chat_completion("Groq", response)

\* Variant: the custom adapter cleans the script like the keyed adapters
call_custom_api_cleaned(response) ==
  IF response.kind = "exception"
    THEN Return(<<Error("Network Error")>>, None)
  ELSE IF ~StatusOk(response.status)
    THEN Return(<<Error("API Error")>>, None)
  ELSE LET result == response.body IN
    IF result = NotJson THEN Return(<<Error("Invalid JSON response from API")>>, None)
    ELSE IF ~IsDict(result) THEN Raise(<<>>)
    ELSE IF HasKey(result, "script") THEN CleanText(result.d["script"])
    ELSE Return(<<>>, Str(<<>>))

\* The custom endpoint: RequestException and JSONDecodeError are caught
\* inside the adapter, and the "script" value is returned as received
call_custom_api(response) ==
  IF response.kind = "exception"
    THEN Return(<<Error("Network Error")>>, None)
  ELSE IF ~StatusOk(response.status)
    THEN Return(<<Error("API Error")>>, None)
  ELSE LET result == response.body IN
    IF result = NotJson THEN Return(<<Error("Invalid JSON response from API")>>, None)
    ELSE IF ~IsDict(result) THEN Raise(<<>>)
    ELSE IF HasKey(result, "script") THEN Return(<<>>, result.d["script"])
    ELSE Return(<<>>, Str(<<>>))

\* call_api: dispatch on the provider; any Exception becomes a report and None
call_api(provider, response) ==
  LET r == CASE provider = "GEMINI" -> call_gemini_api(response)
             [] provider = "GROQ" -> call_groq_api(response)
             [] provider = "OPENAI" -> call_openai_api(response)
             [] provider = "ANTHROPIC" -> call_anthropic_api(response)
             [] OTHER -> call_custom_api(response)
  IN IF r.exc THEN Return(r.reports \o <<Error("API Error")>>, None) ELSE r

\* ------------------------------------------------------------------------
\* Inputs: the settings bag (AIGenProperties) and what the endpoints answer
\* ------------------------------------------------------------------------
Providers == {"GEMINI", "GROQ", "OPENAI", "ANTHROPIC", "CUSTOM"}
KeyedProviders == {"GEMINI", "GROQ", "OPENAI", "ANTHROPIC"}

Cube == <<"c", "u", "b", "e">>
Bookcase == <<"a", " ", "t", "a", "l", "l", " ", "w", "o", "o", "d", "e", "n", " ", "b", "o", "o", "k", "c", "a", "s", "e">>
Prompts == {<<>>, <<" ">>, Cube, Bookcase}
ApiKeys == {<<>>, <<" ">>, <<"k">>}

PropsSet ==
  [prompt : Prompts, api_provider : Providers, api_key : ApiKeys,
   auto_clear : BOOLEAN]

\* Response texts: plain, padded, blank, fenced with and without the tag,
\* an empty fenced block, and a fence after a leading newline
Plain == <<"X">>
Padded == <<" ", "X", "\n">>
FencedPython == FencePython \o <<"\n", "X", "\n">> \o Fence
FencedBare == Fence \o <<"\n", "X", "\n">> \o Fence
FencedEmpty == Fence \o Fence
FenceAfterNewline == <<"\n">> \o Fence \o <<"X">> \o Fence
Texts ==
  {Plain, Padded, <<>>, <<" ">>, FencedPython, FencedBare, FencedEmpty,
   FenceAfterNewline}

\* Bodies in the shape each provider documents
GeminiBody(text) ==
  Dict("candidates" :> List(<<Dict("content" :>
         Dict("parts" :> List(<<Dict("text" :> text)>>)))>>))
ChatBody(content) ==
  Dict("choices" :> List(<<Dict("message" :> Dict("content" :> content))>>))
AnthropicBody(text) == Dict("content" :> List(<<Dict("text" :> text)>>))
CustomBody(script) == Dict("script" :> script)
ErrorBody == Dict("error" :> Dict("message" :> Str(<<"X">>)))

ShapedBody(provider, text) ==
  CASE provider = "GEMINI" -> GeminiBody(text)
    [] provider \in {"GROQ", "OPENAI"} -> ChatBody(text)
    [] provider = "ANTHROPIC" -> AnthropicBody(text)
    [] OTHER -> CustomBody(text)

\* Bodies that are not in the documented shape
Malformed(provider) ==
  <<NotJson, EmptyDict, List(<<>>), ErrorBody, ShapedBody(provider, None),
    ShapedBody(provider, List(<<Str(Plain)>>))>> \o
  CASE provider = "GEMINI" ->
         <<Dict("candidates" :> List(<<>>)),
           Dict("candidates" :> None),
           Dict("candidates" :> List(<<EmptyDict>>)),
           Dict("candidates" :> List(<<Dict("content" :> EmptyDict)>>)),
           Dict("candidates" :> List(<<Dict("content" :> None)>>)),
           Dict("candidates" :> List(<<Dict("content" :>
                  Dict("parts" :> List(<<>>)))>>)),
           Dict("candidates" :> List(<<Dict("content" :>
                  Dict("parts" :> List(<<EmptyDict>>)))>>))>>
    [] provider \in {"GROQ", "OPENAI"} ->
         <<Dict("choices" :> List(<<>>)),
           Dict("choices" :> None),
           Dict("choices" :> List(<<EmptyDict>>)),
           Dict("choices" :> List(<<Dict("message" :> EmptyDict)>>)),
           Dict("choices" :> List(<<Dict("message" :> None)>>))>>
    [] provider = "ANTHROPIC" ->
         <<Dict("content" :> List(<<>>)),
           Dict("content" :> None),
           Dict("content" :> List(<<EmptyDict>>))>>
    [] OTHER -> <<CustomBody(EmptyDict)>>

ErrorStatuses == {204, 401}

\* What requests.post can produce for a generate request to provider
Responses(provider) ==
  {RequestException}
  \cup {HttpResponse(200, ShapedBody(provider, Str(t))) : t \in Texts}
  \cup {HttpResponse(200, Malformed(provider)[i]) :
          i \in 1..Len(Malformed(provider))}
  \cup {HttpResponse(s, b) :
          s \in ErrorStatuses,
          b \in {NotJson, ErrorBody, ShapedBody(provider, Str(Plain))}}

\* What requests.post / requests.get can produce for a connection test
TestResponses ==
  {RequestException, HttpResponse(200, NotJson)}
  \cup {HttpResponse(s, NotJson) : s \in ErrorStatuses}

\* ------------------------------------------------------------------------
\* Requests: the method and the headers handed to requests
\* ------------------------------------------------------------------------
NoHeaders == [h \in {} |-> <<>>]
NoRequest == [method |-> "none", headers |-> NoHeaders]
Post(hs) == [method |-> "POST", headers |-> hs]
Get(hs) == [method |-> "GET", headers |-> hs]

ApplicationJson == <<"a", "p", "p", "l", "i", "c", "a", "t", "i", "o", "n", "/", "j", "s", "o", "n">>
Bearer(api_key) == <<"B", "e", "a", "r", "e", "r", " ">> \o api_key

\* Variant: the Authorization header is added for any key that is not empty
custom_headers_no_strip(api_key) ==
  IF api_key # <<>>
    THEN "Content-Type" :> ApplicationJson @@ "Authorization" :> Bearer(api_key)
    ELSE "Content-Type" :> ApplicationJson

\* call_custom_api: the Authorization header is added if a key is provided
custom_headers(api_key) ==
  IF strip(api_key) # <<>>
    THEN "Content-Type" :> ApplicationJson @@ "Authorization" :> Bearer(api_key)
    ELSE "Content-Type" :> ApplicationJson

\* The headers each adapter builds
headers(provider, api_key) ==
  CASE provider = "GEMINI" ->
         "Content-Type" :> ApplicationJson @@ "X-goog-api-key" :> api_key
    [] provider \in {"GROQ", "OPENAI"} ->
         "Content-Type" :> ApplicationJson @@ "Authorization" :> Bearer(api_key)
    [] provider = "ANTHROPIC" ->
         "Content-Type" :> ApplicationJson @@ "x-api-key" :> api_key
           @@ "anthropic-version" :> <<"2", "0", "2", "3", "-", "0", "6", "-", "0", "1">>
    [] OTHER -> custom_headers(api_key)

\* The request of the connection test: the custom endpoint gets a bare GET
test_request(provider, api_key) ==
  IF provider \in KeyedProviders
    THEN Post(headers(provider, api_key))
    ELSE Get(NoHeaders)

\* ------------------------------------------------------------------------
\* State
\* ------------------------------------------------------------------------
VARIABLES
  pc,           \* position in the running operator, "idle" or "done"
  op,           \* the operator invoked last: "generate" or "test"
  props,        \* context.scene.ai_gen_props as read by the operator
  objects,      \* number of objects in the scene
  collections,  \* names of the collections linked to the scene, in order
  reports,      \* self.report calls of the operator, in order
  result,       \* what execute returned, "RAISED" if it raised
  httpCount,    \* requests.post / requests.get calls of the operator
  request,      \* the request as sent: method and headers
  response,     \* what the request produced
  script_code,  \* what call_api returned
  made,         \* objects the script has created so far
  trace,        \* host calls of execute_script, in order
  objects0,     \* objects when the operator was invoked
  collections0  \* collections when the operator was invoked

vars ==
  <<pc, op, props, objects, collections, reports, result, httpCount,
    request, response, script_code, made, trace, objects0, collections0>>

scene == <<objects, collections>>

DefaultProps ==
  [prompt |-> Cube, api_provider |-> "GEMINI", api_key |-> <<>>,
   auto_clear |-> TRUE]

Init ==
  /\ pc = "idle"
  /\ op = "none"
  /\ props = DefaultProps
  /\ objects \in 0..MaxObjects
  /\ collections = <<>>
  /\ reports = <<>>
  /\ result = "NONE"
  /\ httpCount = 0
  /\ request = NoRequest
  /\ response = NoResponse
  /\ script_code = None
  /\ made = 0
  /\ trace = <<>>
  /\ objects0 = objects
  /\ collections0 = <<>>

\* Variant: the prompt is tested without strip
PromptMissingNoStrip(prompt) == prompt = <<>>

\* not props.prompt.strip()
PromptMissing(prompt) == strip(prompt) = <<>>

\* Variant: the key is tested without strip
KeyMissingNoStrip(api_key) == api_key = <<>>

\* not props.api_key.strip()
KeyMissing(api_key) == strip(api_key) = <<>>

\* An operator starts: the per-invocation state is fresh
Invoke(name, p) ==
  /\ pc \in {"idle", "done"}
  /\ op' = name
  /\ props' = p
  /\ response' = NoResponse
  /\ script_code' = None
  /\ made' = 0
  /\ trace' = <<>>
  /\ objects0' = objects
  /\ collections0' = collections
  /\ UNCHANGED scene

\* ------------------------------------------------------------------------
\* AIGEN_OT_generate
\* ------------------------------------------------------------------------
\* execute, up to the call of call_api
Generate ==
  \E p \in PropsSet :
    /\ Len(collections) < MaxCollections
    /\ Invoke("generate", p)
    /\ httpCount' = 0
    /\ request' = NoRequest
    /\ IF PromptMissing(p.prompt)
         THEN /\ reports' = <<Error("Please enter a prompt")>>
              /\ result' = "CANCELLED"
              /\ pc' = "done"
         ELSE /\ reports' = <<Info("Generating model")>>
              /\ result' = "NONE"
              /\ pc' = "call_api"

\* Variant: the scene is cleared before the API is called
SendRequestClearFirst ==
  /\ pc = "call_api"
  /\ IF props.api_provider \in KeyedProviders /\ KeyMissing(props.api_key)
       THEN /\ reports' = Append(reports, Error("Please enter your API key"))
            /\ pc' = "check"
            /\ UNCHANGED <<httpCount, request>>
       ELSE /\ httpCount' = httpCount + 1
            /\ request' = Post(headers(props.api_provider, props.api_key))
            /\ pc' = "request"
            /\ UNCHANGED reports
  /\ objects' = IF props.auto_clear THEN 0 ELSE objects
  /\ UNCHANGED <<op, props, collections, result, response, script_code, made,
                 trace, objects0, collections0>>

\* call_api and the adapter, up to requests.post
SendRequest ==
  /\ pc = "call_api"
  /\ IF props.api_provider \in KeyedProviders /\ KeyMissing(props.api_key)
       THEN /\ reports' = Append(reports, Error("Please enter your API key"))
            /\ pc' = "check"
            /\ UNCHANGED <<httpCount, request>>
       ELSE /\ httpCount' = httpCount + 1
            /\ request' = Post(headers(props.api_provider, props.api_key))
            /\ pc' = "request"
            /\ UNCHANGED reports
  /\ UNCHANGED <<op, props, scene, result, response, script_code, made, trace,
                 objects0, collections0>>

\* Variant: execute has no except clause and the Exception leaves it
execute_no_except == [report |-> Error("Error"), result |-> "RAISED"]

\* execute: the except clause around call_api, the test and execute_script
execute_except == [report |-> Error("Error"), result |-> "CANCELLED"]

\* Variant: the branch reports but does not return CANCELLED
no_script_falls_through ==
  [report |-> Error("Failed to get valid script from API"),
   result |-> "FINISHED"]

\* execute: the branch taken when the payload is None, empty or blank
no_script ==
  [report |-> Error("Failed to get valid script from API"),
   result |-> "CANCELLED"]

\* Variant: a request that raised is sent again
DeliverRetry(r) ==
  LET out == call_api(props.api_provider, r)
  IN /\ response' = r
     /\ IF r.kind = "exception" /\ httpCount < 2
          THEN /\ pc' = "call_api"
               /\ UNCHANGED <<reports, result, script_code>>
          ELSE IF out.exc
            THEN /\ reports' = Append(reports \o out.reports, execute_except.report)
                 /\ result' = execute_except.result
                 /\ pc' = "done"
                 /\ UNCHANGED script_code
            ELSE /\ reports' = reports \o out.reports
                 /\ script_code' = out.ret
                 /\ pc' = "check"
                 /\ UNCHANGED result
     /\ UNCHANGED <<op, props, scene, httpCount, request, made, trace, objects0,
                    collections0>>

\* requests.post produced r: the adapter and call_api run to their return
Deliver(r) ==
  LET out == call_api(props.api_provider, r)
  IN /\ response' = r
     /\ IF out.exc
          THEN /\ reports' = Append(reports \o out.reports, execute_except.report)
               /\ result' = execute_except.result
               /\ pc' = "done"
               /\ UNCHANGED script_code
          ELSE /\ reports' = reports \o out.reports
               /\ script_code' = out.ret
               /\ pc' = "check"
               /\ UNCHANGED result
     /\ UNCHANGED <<op, props, scene, httpCount, request, made, trace, objects0,
                    collections0>>

\* requests.post returns or raises
ReceiveResponse ==
  /\ pc = "request"
  /\ op = "generate"
  /\ \E r \in Responses(props.api_provider) : Deliver(r)

\* bool(script_code) for the values a JSON body can hold
Truthy(v) == NonEmpty(v)

\* Variant: the payload is tested without strip
ScriptTestNoStrip(v) ==
  IF ~Truthy(v) THEN Return(<<>>, FALSE)
  ELSE IF ~IsStr(v) THEN Raise(<<>>)
  ELSE Return(<<>>, TRUE)

\* script_code and script_code.strip(): only a str has strip
ScriptTest(v) ==
  IF ~Truthy(v) THEN Return(<<>>, FALSE)
  ELSE IF ~IsStr(v) THEN Raise(<<>>)
  ELSE Return(<<>>, strip(v.s) # <<>>)

\* execute: the test of the payload
CheckScript ==
  /\ pc = "check"
  /\ LET test == ScriptTest(script_code)
     IN IF test.exc
          THEN /\ reports' = Append(reports, execute_except.report)
               /\ result' = execute_except.result
               /\ pc' = "done"
          ELSE IF test.ret
            THEN /\ pc' = "clear"
                 /\ UNCHANGED <<reports, result>>
            ELSE /\ reports' = Append(reports, no_script.report)
                 /\ result' = no_script.result
                 /\ pc' = "done"
  /\ UNCHANGED <<op, props, scene, httpCount, request, response, script_code, made,
                 trace, objects0, collections0>>

\* ------------------------------------------------------------------------
\* execute_script
\* ------------------------------------------------------------------------
\* Variant: the prompt is not truncated
collection_name_untruncated(prompt) ==
  <<"A", "I", "_", "G", "e", "n", "e", "r", "a", "t", "e", "d", "_">> \o prompt

\* f"AI_Generated_{props.prompt[:20]}"
collection_name(prompt) ==
  <<"A", "I", "_", "G", "e", "n", "e", "r", "a", "t", "e", "d", "_">> \o
  SubSeq(prompt, 1, IF Len(prompt) < 20 THEN Len(prompt) ELSE 20)

\* The except clause of execute_script: report, and return normally
execute_script_except == Return(<<Error("Script execution error")>>, None)

\* An Exception raised inside the try block of execute_script
ExecutorRaises ==
  LET out == execute_script_except
  IN /\ trace' = Append(trace, "raise")
     /\ IF out.exc
          THEN /\ reports' = Append(reports \o out.reports, execute_except.report)
               /\ result' = execute_except.result
               /\ pc' = "done"
          ELSE /\ reports' = reports \o out.reports
               /\ pc' = "return"
               /\ UNCHANGED result

\* Variant: clearing also unlinks the collections of earlier runs
ClearSceneCollections ==
  /\ pc = "clear"
  /\ IF props.auto_clear
       THEN \/ /\ objects' = 0
               /\ collections' = <<>>
               /\ trace' = Append(trace, "clear")
               /\ pc' = "new"
               /\ UNCHANGED <<reports, result>>
            \/ /\ ExecutorRaises
               /\ UNCHANGED <<objects, collections>>
       ELSE /\ pc' = "new"
            /\ UNCHANGED <<objects, collections, trace, reports, result>>
  /\ UNCHANGED <<op, props, httpCount, request, response, script_code,
                 made, objects0, collections0>>

\* clear_scene, when auto_clear is set: select and delete every object.
\* The bpy.ops calls raise RuntimeError when their poll fails.
ClearScene ==
  /\ pc = "clear"
  /\ IF props.auto_clear
       THEN \/ /\ objects' = 0
               /\ trace' = Append(trace, "clear")
               /\ pc' = "new"
               /\ UNCHANGED <<reports, result>>
            \/ /\ ExecutorRaises
               /\ UNCHANGED objects
       ELSE /\ pc' = "new"
            /\ UNCHANGED <<objects, trace, reports, result>>
  /\ UNCHANGED <<op, props, collections, httpCount, request, response, script_code,
                 made, objects0, collections0>>

\* bpy.data.collections.new and the link to the scene collection
NewCollection ==
  /\ pc = "new"
  /\ collections' = Append(collections, collection_name(props.prompt))
  /\ trace' = Append(trace, "new")
  /\ pc' = "exec"
  /\ UNCHANGED <<op, props, objects, reports, result, httpCount, request, response,
                 script_code, made, objects0, collections0>>

\* exec compiles the whole script first: a script that starts with a fence
\* is a SyntaxError and none of it runs
SyntaxError(script) == startswith(script.s, Fence)

\* exec: the script adds an object to the scene
ScriptCreatesObject ==
  /\ pc = "exec"
  /\ ~SyntaxError(script_code)
  /\ made < MaxScriptObjects
  /\ objects < MaxObjects
  /\ objects' = objects + 1
  /\ made' = made + 1
  /\ trace' = Append(trace, "object")
  /\ UNCHANGED <<pc, op, props, collections, reports, result, httpCount, request,
                 response, script_code, objects0, collections0>>

\* Variant: what the script and the executor created is removed on error
ScriptRaisesRollback ==
  /\ pc = "exec"
  /\ ExecutorRaises
  /\ objects' = objects - made
  /\ collections' = collections0
  /\ UNCHANGED <<op, props, httpCount, request, response, script_code, made,
                 objects0, collections0>>

\* Variant: the objects deleted by clear_scene are put back on error
ScriptRaisesRestore ==
  /\ pc = "exec"
  /\ ExecutorRaises
  /\ objects' = IF props.auto_clear THEN objects0 + made ELSE objects
  /\ UNCHANGED <<op, props, collections, httpCount, request, response,
                 script_code, made, objects0, collections0>>

\* exec: the script raises
ScriptRaises ==
  /\ pc = "exec"
  /\ ExecutorRaises
  /\ UNCHANGED <<op, props, scene, httpCount, request, response, script_code, made,
                 objects0, collections0>>

\* exec returns, then context.view_layer.update()
ScriptCompletes ==
  /\ pc = "exec"
  /\ ~SyntaxError(script_code)
  /\ trace' = Append(trace, "update")
  /\ pc' = "return"
  /\ UNCHANGED <<op, props, scene, reports, result, httpCount, request, response,
                 script_code, made, objects0, collections0>>

\* execute, after execute_script returned
FinishGenerate ==
  /\ pc = "return"
  /\ reports' = Append(reports, Info("Model generated successfully!"))
  /\ result' = "FINISHED"
  /\ pc' = "done"
  /\ UNCHANGED <<op, props, scene, httpCount, request, response, script_code, made,
                 trace, objects0, collections0>>

\* ------------------------------------------------------------------------
\* AIGEN_OT_test_connection
\* ------------------------------------------------------------------------
\* execute, up to the request
TestConnection ==
  \E p \in {q \in PropsSet : /\ q.prompt = props.prompt
                             /\ q.auto_clear = props.auto_clear} :
    /\ Invoke("test", p)
    /\ IF p.api_provider \in KeyedProviders /\ KeyMissing(p.api_key)
         THEN /\ reports' = <<Error("Please enter your API key")>>
              /\ result' = "CANCELLED"
              /\ pc' = "done"
         ELSE /\ reports' = <<>>
              /\ result' = "NONE"
              /\ pc' = "request"
    /\ httpCount' = IF pc' = "request" THEN 1 ELSE 0
    /\ request' = IF pc' = "request"
                     THEN test_request(p.api_provider, p.api_key)
                     ELSE NoRequest

\* Variant: any response that arrives counts as a successful round trip
test_report_any_status(provider, r) ==
  IF r.kind = "exception" THEN Error("Connection failed")
  ELSE Info("API connection successful!")

\* The report for the outcome of the round trip
test_report(provider, r) ==
  IF r.kind = "exception" THEN Error("Connection failed")
  ELSE IF StatusOk(r.status) THEN Info("API connection successful!")
  ELSE IF provider \in KeyedProviders THEN Error("API error")
  ELSE Warning("Custom API returned status")

\* The request returns or raises; execute reports and returns
TestResponse ==
  /\ pc = "request"
  /\ op = "test"
  /\ \E r \in TestResponses :
       /\ response' = r
       /\ reports' = Append(reports, test_report(props.api_provider, r))
  /\ result' = "FINISHED"
  /\ pc' = "done"
  /\ UNCHANGED <<op, props, scene, httpCount, request, script_code, made, trace,
                 objects0, collections0>>

\* ------------------------------------------------------------------------
Next ==
  \/ Generate
  \/ SendRequest
  \/ ReceiveResponse
  \/ CheckScript
  \/ ClearScene
  \/ NewCollection
  \/ ScriptCreatesObject
  \/ ScriptRaises
  \/ ScriptCompletes
  \/ FinishGenerate
  \/ TestConnection
  \/ TestResponse

Spec == Init /\ [][Next]_vars

\* ------------------------------------------------------------------------
\* The adapters' text clean-up on its own: a keyed provider has been sent
\* the request and answers 200 with any text built from a few segments
\* ------------------------------------------------------------------------
Segments == {Fence, PythonTag, <<Backquote>>, <<"X">>, <<"\n">>}

RECURSIVE TextsOf(_)
TextsOf(n) ==
  IF n = 0 THEN {<<>>}
  ELSE LET shorter == TextsOf(n - 1)
       IN shorter \cup {t \o g : t \in shorter, g \in Segments}

InitText ==
  /\ pc = "request"
  /\ op = "generate"
  /\ props \in {p \in PropsSet : /\ p.api_provider \in KeyedProviders
                                 /\ p.api_key = <<"k">>
                                 /\ p.prompt = Cube
                                 /\ ~p.auto_clear}
  /\ objects = 0
  /\ collections = <<>>
  /\ reports = <<Info("Generating model")>>
  /\ result = "NONE"
  /\ httpCount = 1
  /\ request = Post(headers(props.api_provider, props.api_key))
  /\ response = NoResponse
  /\ script_code = None
  /\ made = 0
  /\ trace = <<>>
  /\ objects0 = 0
  /\ collections0 = <<>>

ReceiveText ==
  /\ pc = "request"
  /\ op = "generate"
  /\ \E t \in TextsOf(MaxSegs) :
       Deliver(HttpResponse(200, ShapedBody(props.api_provider, Str(t))))

NextText ==
  \/ ReceiveText
  \/ CheckScript

SpecText == InitText /\ [][NextText]_vars

\* ========================================================================
\* Properties
\* ========================================================================
Done == pc = "done"
Generating == op = "generate"
Testing == op = "test"

HasReport(r) == \E i \in 1..Len(reports) : reports[i] = r
ErrorCount == Cardinality({i \in 1..Len(reports) : reports[i].level = "ERROR"})
InTrace(e) == \E i \in 1..Len(trace) : trace[i] = e

KeyError == Error("Please enter your API key")
ExecutionError == Error("Script execution error")
Success == Info("Model generated successfully!")

BlankKeys == {<<>>, <<" ">>}
BlankPrompts == {<<>>, <<" ">>}

\* execute_script has been entered
ExecutorCalled == pc \in {"clear", "new", "exec", "return"} \/ trace # <<>>
\* the script raised inside exec
ScriptRaised == InTrace("new") /\ InTrace("raise")
\* exec ran the script to its end
ScriptCompleted == InTrace("update")

Answered200 == response.kind = "http" /\ response.status = 200
AnsweredNon200 == response.kind = "http" /\ response.status # 200

\* The documented shape of a 200 body, down to a text that is a string
Shaped(provider, body) ==
  CASE provider = "GEMINI" ->
         /\ HasKey(body, "candidates")
         /\ IsList(body.d["candidates"])
         /\ body.d["candidates"].l # <<>>
         /\ HasKey(body.d["candidates"].l[1], "content")
         /\ HasKey(body.d["candidates"].l[1].d["content"], "parts")
         /\ IsList(body.d["candidates"].l[1].d["content"].d["parts"])
         /\ body.d["candidates"].l[1].d["content"].d["parts"].l # <<>>
         /\ HasKey(body.d["candidates"].l[1].d["content"].d["parts"].l[1], "text")
         /\ IsStr(body.d["candidates"].l[1].d["content"].d["parts"].l[1].d["text"])
    [] provider \in {"GROQ", "OPENAI"} ->
         /\ HasKey(body, "choices")
         /\ IsList(body.d["choices"])
         /\ body.d["choices"].l # <<>>
         /\ HasKey(body.d["choices"].l[1], "message")
         /\ HasKey(body.d["choices"].l[1].d["message"], "content")
         /\ IsStr(body.d["choices"].l[1].d["message"].d["content"])
    [] provider = "ANTHROPIC" ->
         /\ HasKey(body, "content")
         /\ IsList(body.d["content"])
         /\ body.d["content"].l # <<>>
         /\ HasKey(body.d["content"].l[1], "text")
         /\ IsStr(body.d["content"].l[1].d["text"])
    [] OTHER ->
         /\ HasKey(body, "script")
         /\ IsStr(body.d["script"])

\* The text of a body in the documented shape
TextField(provider, body) ==
  CASE provider = "GEMINI" ->
         body.d["candidates"].l[1].d["content"].d["parts"].l[1].d["text"].s
    [] provider \in {"GROQ", "OPENAI"} ->
         body.d["choices"].l[1].d["message"].d["content"].s
    [] provider = "ANTHROPIC" -> body.d["content"].l[1].d["text"].s
    [] OTHER -> body.d["script"].s

\* A 200 response in the documented shape has been handed to the adapter
GotText == Generating /\ Answered200 /\ Shaped(props.api_provider, response.body)
ResponseText == TextField(props.api_provider, response.body)

\* What lies between the opening marker of a fenced text and the next marker
Opening(text) == IF startswith(text, FencePython) THEN FencePython ELSE Fence
AfterOpening(text) == SubSeq(text, Len(Opening(text)) + 1, Len(text))
Closed(text) == find(AfterOpening(text), Fence) # 0
Inner(text) ==
  SubSeq(AfterOpening(text), 1, find(AfterOpening(text), Fence) - 1)

\* ------------------------------------------------------------------------
\* C1: with Gemini, Groq, OpenAI or Anthropic and an api_key that is empty
\* or whitespace-only, neither operator sends an HTTP request, and each ends
\* CANCELLED with an error reported (the key error, unless generate already
\* rejected a blank prompt).
C1_EmptyKeyRejected ==
  (props.api_provider \in KeyedProviders /\ props.api_key \in BlankKeys) =>
    /\ httpCount = 0
    /\ response = NoResponse
    /\ Done =>
         /\ result = "CANCELLED"
         /\ ErrorCount >= 1
         /\ (Testing \/ props.prompt \notin BlankPrompts) => HasReport(KeyError)

C1_Witness ==
  /\ Done
  /\ Generating
  /\ props.api_provider \in KeyedProviders
  /\ props.api_key = <<" ">>
  /\ props.prompt = Cube
  /\ HasReport(KeyError)
  /\ httpCount = 0

\* ------------------------------------------------------------------------
\* C2: for each of the five providers, a generate whose response has a
\* status other than 200 gets no payload from the adapter, never enters the
\* executor and ends CANCELLED, whatever the body holds.
C2_Non200Fails ==
  (Generating /\ AnsweredNon200) =>
    /\ script_code = None
    /\ ~ExecutorCalled
    /\ scene = <<objects0, collections0>>
    /\ Done => (result = "CANCELLED" /\ ErrorCount >= 1)

C2_Witness ==
  /\ Done
  /\ Generating
  /\ response = HttpResponse(204, ShapedBody(props.api_provider, Str(Plain)))
  /\ result = "CANCELLED"

\* ------------------------------------------------------------------------
\* C3: for Gemini, Groq, OpenAI and Anthropic, a 200 response whose text
\* begins with a fence marker (with or without the python tag) yields the
\* trimmed text between the first pair of fence markers, and a text with no
\* fence marker yields the trimmed text.
C3_FenceStripped ==
  (GotText /\ pc = "check" /\ props.api_provider \in KeyedProviders) =>
    /\ (startswith(ResponseText, Fence) /\ Closed(ResponseText)) =>
         script_code = Str(strip(Inner(ResponseText)))
    /\ find(ResponseText, Fence) = 0 => script_code = Str(strip(ResponseText))

\* ------------------------------------------------------------------------
\* C4 as stated: the clean-up is applied for all five providers, the custom
\* one included: a 200 response whose text starts with a fence marker
\* yields the trimmed text between the first pair of fence markers.
C4_AllProvidersCleaned ==
  (GotText /\ pc = "check" /\ startswith(ResponseText, Fence)
     /\ Closed(ResponseText)) =>
    script_code = Str(strip(Inner(ResponseText)))

\* C4 as amended: the clean-up is applied by the four keyed adapters only
\* (their payload is trimmed, holds no fence marker when the text began with
\* one, and is the trimmed text when the text held none); the custom adapter
\* returns the value of "script" as received, fence markers and surrounding
\* whitespace included.
C4_CustomVerbatim ==
  (Generating /\ Answered200 /\ pc = "check") =>
    /\ (props.api_provider = "CUSTOM" /\ HasKey(response.body, "script")) =>
         script_code = response.body.d["script"]
    /\ (props.api_provider \in KeyedProviders
          /\ Shaped(props.api_provider, response.body)) =>
         /\ IsStr(script_code)
         /\ strip(script_code.s) = script_code.s
         /\ startswith(ResponseText, Fence) => find(script_code.s, Fence) = 0
         /\ find(ResponseText, Fence) = 0 =>
              script_code.s = strip(ResponseText)

C4_Witness ==
  /\ pc = "check"
  /\ Generating
  /\ props.api_provider = "CUSTOM"
  /\ response = HttpResponse(200, CustomBody(Str(FencedPython)))
  /\ script_code = Str(FencedPython)

\* ------------------------------------------------------------------------
\* C5: when the script raises partway through, the execution error is
\* reported and what was created before the error stays: the new collection
\* is linked and every object the script made is in the scene.
C5_NoRollback ==
  (Generating /\ Done /\ ScriptRaised) =>
    /\ HasReport(ExecutionError)
    /\ result # "RAISED"
    /\ collections = Append(collections0, collection_name(props.prompt))
    /\ objects = (IF props.auto_clear THEN 0 ELSE objects0) + made

C5_Witness ==
  /\ Generating
  /\ Done
  /\ ScriptRaised
  /\ made >= 1
  /\ objects >= 1
  /\ HasReport(ExecutionError)

\* ------------------------------------------------------------------------
\* C6: generate reports success and returns FINISHED only when the executor
\* ran the script to completion without error.
C6_SuccessOnlyIfCompleted ==
  (Generating /\ Done /\ (result = "FINISHED" \/ HasReport(Success))) =>
    (ScriptCompleted /\ ~InTrace("raise") /\ ~HasReport(ExecutionError))

\* ------------------------------------------------------------------------
\* C7: for every provider, a 200 response whose JSON is not in the expected
\* shape ends the generate CANCELLED with an error reported; nothing is
\* raised out of the operator and the executor is never entered.
C7_BadShapeCancelled ==
  (Generating /\ Answered200 /\ ~Shaped(props.api_provider, response.body)) =>
    /\ ~ExecutorCalled
    /\ scene = <<objects0, collections0>>
    /\ result # "RAISED"
    /\ Done => (result = "CANCELLED" /\ ErrorCount >= 1)

C7_Witness ==
  /\ Generating
  /\ Done
  /\ props.api_provider = "OPENAI"
  /\ response = HttpResponse(200, EmptyDict)
  /\ result = "CANCELLED"
  /\ HasReport(Error("No content generated by OpenAI"))

\* ------------------------------------------------------------------------
\* C8: no Exception leaves an operator: generate and test-connection each
\* end by returning FINISHED or CANCELLED, whatever failed.
C8_NothingPropagates ==
  /\ result \in {"NONE", "FINISHED", "CANCELLED"}
  /\ Done => result \in {"FINISHED", "CANCELLED"}
  /\ Done => (result = "FINISHED" \/ ErrorCount >= 1)

C8_Witness ==
  /\ Generating
  /\ Done
  /\ props.api_provider = "CUSTOM"
  /\ response = HttpResponse(200, CustomBody(List(<<Str(Plain)>>)))
  /\ result = "CANCELLED"
  /\ HasReport(Error("Error"))

\* ------------------------------------------------------------------------
\* C9: a generate that fails emits exactly one error-level report.
C9_OneErrorReport ==
  (Generating /\ Done /\ result = "CANCELLED") => ErrorCount = 1

\* ------------------------------------------------------------------------
\* C10: one invocation of either operator sends at most one HTTP request,
\* whatever the request produced.
C10_NoRetry ==
  /\ httpCount <= 1
  /\ (pc = "request") => (httpCount = 1 /\ response = NoResponse)
  /\ (response # NoResponse) => httpCount = 1

C10_Witness ==
  /\ Generating
  /\ Done
  /\ response = RequestException
  /\ httpCount = 1
  /\ result = "CANCELLED"

\* ------------------------------------------------------------------------
\* C11: a generate whose prompt is empty or whitespace-only reports the
\* prompt error and ends CANCELLED at once: no HTTP request is sent for any
\* provider and the scene is as it was.
C11_BlankPromptRejected ==
  (Generating /\ props.prompt \in BlankPrompts) =>
    /\ Done
    /\ result = "CANCELLED"
    /\ reports = <<Error("Please enter a prompt")>>
    /\ httpCount = 0
    /\ request = NoRequest
    /\ response = NoResponse
    /\ trace = <<>>
    /\ scene = <<objects0, collections0>>

C11_Witness ==
  /\ Generating
  /\ Done
  /\ props.prompt = <<" ">>
  /\ props.api_key = <<"k">>
  /\ props.auto_clear
  /\ objects >= 1
  /\ result = "CANCELLED"

\* ------------------------------------------------------------------------
\* C12: the connection test reports success exactly when the round trip
\* returned status 200, and a failure (an error, or a warning for the custom
\* endpoint) otherwise; it extracts no script, never enters the executor
\* and leaves the scene as it was.
TestSuccess == Info("API connection successful!")

C12_TestReportsRoundTrip ==
  Testing =>
    /\ script_code = None
    /\ trace = <<>>
    /\ made = 0
    /\ scene = <<objects0, collections0>>
    /\ Done =>
         /\ Len(reports) = 1
         /\ HasReport(TestSuccess) <=> Answered200
         /\ ~Answered200 => reports[1].level \in {"ERROR", "WARNING"}
         /\ response = NoResponse =>
              (props.api_provider \in KeyedProviders /\ props.api_key \in BlankKeys)

C12_Witness ==
  /\ Testing
  /\ Done
  /\ props.api_provider = "CUSTOM"
  /\ response = HttpResponse(401, NotJson)
  /\ reports = <<Warning("Custom API returned status")>>
  /\ objects >= 1
  /\ collections # <<>>

\* ------------------------------------------------------------------------
\* C13: the executor works in a fixed order: with auto_clear the existing
\* objects are deleted first; then one collection named AI_Generated_ plus
\* the first 20 characters of the prompt is created and linked; only then
\* does the script run; the view refresh comes last.  Without auto_clear
\* the executor deletes nothing.
CubeName == <<"A", "I", "_", "G", "e", "n", "e", "r", "a", "t", "e", "d", "_", "c", "u", "b", "e">>
BookcaseName == <<"A", "I", "_", "G", "e", "n", "e", "r", "a", "t", "e", "d", "_", "a", " ", "t", "a", "l", "l", " ", "w", "o", "o", "d", "e", "n", " ", "b", "o", "o", "k", "c", "a">>
ExpectedName == IF props.prompt = Cube THEN CubeName ELSE BookcaseName

C13_ExecutorOrder ==
  Generating =>
    /\ \A i \in 1..Len(trace) :
         /\ trace[i] = "clear" => (i = 1 /\ props.auto_clear)
         /\ trace[i] = "new" => i = (IF props.auto_clear THEN 2 ELSE 1)
         /\ trace[i] = "object" => (i > 1 /\ trace[i - 1] \in {"new", "object"})
         /\ trace[i] = "update" => (i = Len(trace) /\ trace[i - 1] \in {"new", "object"})
         /\ trace[i] = "raise" => i = Len(trace)
    /\ (props.auto_clear /\ trace # <<>>) => trace[1] \in {"clear", "raise"}
    /\ InTrace("new") => collections = Append(collections0, ExpectedName)
    /\ ~InTrace("new") => collections = collections0
    /\ pc = "exec" => InTrace("new")
    /\ ~props.auto_clear => (~InTrace("clear") /\ objects = objects0 + made)
    /\ InTrace("clear") => objects = made

C13_Witness ==
  /\ Generating
  /\ Done
  /\ props.prompt = Bookcase
  /\ trace = <<"clear", "new", "object", "update">>
  /\ objects0 = 2
  /\ objects = 1
  /\ collections = <<CubeName, BookcaseName>>

\* ------------------------------------------------------------------------
\* C14: with auto_clear set, when the script raises the objects that existed
\* before the action have been deleted and are not restored: only what the
\* script made is left.
C14_ClearedStaysCleared ==
  (Generating /\ Done /\ props.auto_clear /\ ScriptRaised) =>
    /\ InTrace("clear")
    /\ objects = made
    /\ HasReport(ExecutionError)

C14_Witness ==
  /\ Generating
  /\ Done
  /\ props.auto_clear
  /\ ScriptRaised
  /\ objects0 = 2
  /\ objects = 0

\* ------------------------------------------------------------------------
\* C15: the key is required for every provider but the custom one: with the
\* custom provider an empty or whitespace-only api_key does not stop the
\* generate and the request goes out without an Authorization header; with
\* any other key the request carries Authorization: Bearer <key>.
C15_CustomKeyOptional ==
  (Generating /\ props.prompt \notin BlankPrompts) =>
    /\ (props.api_provider \in KeyedProviders /\ props.api_key \in BlankKeys) =>
         request = NoRequest
    /\ (props.api_provider = "CUSTOM" /\ pc # "call_api") =>
         /\ httpCount = 1
         /\ request.method = "POST"
         /\ props.api_key \in BlankKeys =>
              "Authorization" \notin DOMAIN request.headers
         /\ props.api_key \notin BlankKeys =>
              /\ "Authorization" \in DOMAIN request.headers
              /\ request.headers["Authorization"] = <<"B", "e", "a", "r", "e", "r", " ">> \o props.api_key

C15_Witness ==
  /\ Generating
  /\ pc = "request"
  /\ props.api_provider = "CUSTOM"
  /\ props.api_key = <<" ">>
  /\ httpCount = 1
  /\ DOMAIN request.headers = {"Content-Type"}

\* ------------------------------------------------------------------------
\* C16: a generate that fails before the executor is reached (blank prompt,
\* missing key, network exception, non-200 status, response-shape error or
\* an empty payload) leaves the scene as it was: nothing is cleared, also
\* with auto_clear set, and no collection is created.
WhitespaceOnly(v) == IsStr(v) /\ \A i \in 1..Len(v.s) : v.s[i] \in {" ", "\n"}

FailsEarly ==
  \/ props.prompt \in BlankPrompts
  \/ props.api_provider \in KeyedProviders /\ props.api_key \in BlankKeys
  \/ response = RequestException
  \/ AnsweredNon200
  \/ Answered200 /\ ~Shaped(props.api_provider, response.body)
  \/ pc \in {"check", "done"} /\ (script_code = None \/ WhitespaceOnly(script_code))

C16_EarlyFailureKeepsScene ==
  (Generating /\ FailsEarly) =>
    /\ scene = <<objects0, collections0>>
    /\ trace = <<>>
    /\ made = 0
    /\ Done => result = "CANCELLED"

C16_Witness ==
  /\ Generating
  /\ Done
  /\ props.auto_clear
  /\ objects0 = 2
  /\ objects = 2
  /\ response = RequestException
  /\ result = "CANCELLED"

\* ------------------------------------------------------------------------
\* C17: for Gemini, Groq, OpenAI and Anthropic the payload of a 200
\* response never begins with a fence marker, whatever the text, and
\* cleaning the payload a second time changes nothing.
C17_PayloadNeverFenced ==
  (GotText /\ pc = "check" /\ props.api_provider \in KeyedProviders) =>
    /\ ~startswith(script_code.s, Fence)
    /\ cleaned_content(script_code.s) = script_code.s

\* ------------------------------------------------------------------------
\* C18: a payload that is None, empty or whitespace-only is never executed:
\* generate reports that it got no valid script, ends CANCELLED and does not
\* enter the executor.
C18_BlankPayloadNotExecuted ==
  (Generating /\ props.prompt \notin BlankPrompts
     /\ (script_code = None \/ WhitespaceOnly(script_code))) =>
    /\ ~ExecutorCalled
    /\ scene = <<objects0, collections0>>
    /\ pc \in {"call_api", "request", "check", "done"}
    /\ Done =>
         /\ result = "CANCELLED"
         /\ reports[Len(reports)] = Error("Failed to get valid script from API")

C18_Witness ==
  /\ Generating
  /\ Done
  /\ props.api_provider = "CUSTOM"
  /\ response = HttpResponse(200, EmptyDict)
  /\ script_code = Str(<<>>)
  /\ result = "CANCELLED"
  /\ reports = <<Info("Generating model"),
                 Error("Failed to get valid script from API")>>

\* ------------------------------------------------------------------------
\* C19 as stated: over any sequence of generates, each one that got a
\* non-empty payload from the adapter adds exactly one collection, also when
\* its script raises, each one that failed earlier adds none, and no
\* collection of an earlier generate is ever removed.
NonBlankPayload == IsStr(script_code) /\ ~WhitespaceOnly(script_code)
IsPrefix(s, t) == Len(s) <= Len(t) /\ SubSeq(t, 1, Len(s)) = s

C19_OneCollectionPerPayload ==
  /\ IsPrefix(collections0, collections)
  /\ (Generating /\ Done) =>
       Len(collections) = Len(collections0) + (IF NonBlankPayload THEN 1 ELSE 0)

\* C19 as amended: each generate that got a non-blank payload adds exactly
\* one collection, also when its script raises, unless clearing the scene
\* raised first, in which case it adds none; each generate that failed
\* earlier adds none; no collection of an earlier generate is ever removed,
\* with or without auto_clear.
ClearRaised == trace = <<"raise">>

C19_OneCollectionUnlessClearRaised ==
  /\ IsPrefix(collections0, collections)
  /\ Len(collections) <= Len(collections0) + 1
  /\ ClearRaised => props.auto_clear
  /\ (Generating /\ Done) =>
       Len(collections) =
         Len(collections0) + (IF NonBlankPayload /\ ~ClearRaised THEN 1 ELSE 0)

C19_Witness ==
  /\ Generating
  /\ Done
  /\ props.auto_clear
  /\ ScriptRaised
  /\ InTrace("clear")
  /\ Len(collections0) = 1
  /\ Len(collections) = 2

====
